---------------------------- MODULE Spec2Model ----------------------------
(***************************************************************************)
(* Model of weekly_dash.py: the module-level load of the weekly table and  *)
(* the single Dash callback update_chart that filters it, draws one trace  *)
(* per selected field, writes the status line and attaches the CSV export. *)
(*                                                                         *)
(* Conventions.  A str is a sequence of one-character strings.  A          *)
(* Timestamp is an integer number of ticks, TicksPerDay ticks to the day;  *)
(* a "%Y-%m-%d" label is the day number.  A price is an integer number of  *)
(* eighths (every such value is an exact binary float); a ".2f" text is    *)
(* the integer number of hundredths it shows.  Python's None for an        *)
(* optional value is the empty sequence, a present value a one-element     *)
(* sequence.  Indices of the slider are 0-based as in the code.            *)
(*                                                                         *)
(* Spec has one browser session and draws the file from RawTables and      *)
(* ScenarioTables; SpecTwo has two sessions on StaggeredTable.             *)
(***************************************************************************)
EXTENDS Integers, Sequences, FiniteSets, TLC

(* ------------------------------ bounds --------------------------------- *)

\* Rows of a parquet file drawn row by row (a scenario file has 2 * weeks rows).
MaxRows == 3
\* Distinct weekly dates that occur in the parquet file.
MaxDay == 2
\* Ticks of a day: tick 0 is midnight.
TicksPerDay == 2
\* Clicks of the download button in one session.
MaxClicks == 2

(* ------------------------------ strings -------------------------------- *)

Ord(c) ==
    CASE c = " " -> 32
      [] c = "A" -> 65
      [] c = "B" -> 66
      [] c = "a" -> 97
      [] c = "b" -> 98
      [] OTHER   -> 127

IsSpace(c) == c = " "

UpperChar(c) ==
    CASE c = "a" -> "A"
      [] c = "b" -> "B"
      [] OTHER   -> c

RECURSIVE LStrip(_)
LStrip(s) ==
    IF s = <<>> THEN <<>>
    ELSE IF IsSpace(Head(s)) THEN LStrip(Tail(s)) ELSE s

RECURSIVE RStrip(_)
RStrip(s) ==
    IF s = <<>> THEN <<>>
    ELSE IF IsSpace(s[Len(s)]) THEN RStrip(SubSeq(s, 1, Len(s) - 1)) ELSE s

\* Series.str.strip()
Strip(s) == RStrip(LStrip(s))

\* Series.str.upper()
Upper(s) == [i \in 1..Len(s) |-> UpperChar(s[i])]

\* Python's < on str: lexicographic by code point.
RECURSIVE StrLess(_, _)
StrLess(a, b) ==
    IF b = <<>> THEN FALSE
    ELSE IF a = <<>> THEN TRUE
    ELSE IF Ord(Head(a)) # Ord(Head(b)) THEN Ord(Head(a)) < Ord(Head(b))
    ELSE StrLess(Tail(a), Tail(b))

(* --------------------------- dates and numbers ------------------------- *)

\* A missing numeric or date cell.
NaN == -1

\* A missing Ticker cell.
NoTicker == <<"<NA>">>

Timestamp(day, tick) == day * TicksPerDay + tick

\* Series.dt.strftime("%Y-%m-%d"): the day of the timestamp, its time dropped.
StrfTime(ts) == ts \div TicksPerDay

\* pd.to_datetime of a "%Y-%m-%d" label: midnight of that day.
ToDatetime(label) == label * TicksPerDay

\* format(v, ".2f") of v eighths: the hundredths shown, the exact value
\* rounded half to even.
Fmt2f(v) ==
    LET twice == v * 25
        floor == twice \div 2
    IN  IF twice % 2 = 0 THEN floor
        ELSE IF floor % 2 = 0 THEN floor ELSE floor + 1

(* ------------------------------ the table ------------------------------ *)

\* The columns of the table, in file order.
Columns ==
    <<"Date", "Open", "High", "Low", "Close", "Volume", "Ticker", "EMA_High", "EMA_Low">>

fields == <<"Open", "High", "Low", "Close", "Volume", "EMA_High", "EMA_Low">>

custom_colors == <<"#0f5499", "#9e2f50", "#6a737b", "#ffbc42", "#005f73", "#b08968">>

SeqRange(s) == {s[i] : i \in 1..Len(s)}

IsNa(col, v) == IF col = "Ticker" THEN v = NoTicker ELSE v = NaN

(* The file's content is produced upstream.  The rows the model draws a    *)
(* file from: both symbols, as upstream spells them, at midnight of each   *)
(* week, each with its own value in every numeric column; one row stamped  *)
(* at the last tick of the last week's day; one row with a missing EMA_Low.*)
RawTickers == {<<" ", "a", "a", "a">>, <<"B", "B", "B", " ">>}

RawDates == {Timestamp(d, 0) : d \in 0..(MaxDay - 1)}

Base(tk) == IF Upper(Strip(tk)) = <<"A", "A", "A">> THEN 80 ELSE 160

RawRow(tk, ts) ==
    [Date     |-> ts,
     Open     |-> Base(tk) + 9 * ts,
     High     |-> Base(tk) + 9 * ts + 4,
     Low      |-> Base(tk) + 9 * ts + 2,
     Close    |-> Base(tk) + 9 * ts + 3,
     Volume   |-> 1000 + ts,
     Ticker   |-> tk,
     EMA_High |-> Base(tk) + 9 * ts + 5,
     EMA_Low  |-> Base(tk) + 9 * ts + 1]

RawRows ==
    {RawRow(tk, ts) : tk \in RawTickers, ts \in RawDates}
        \cup {RawRow(<<" ", "a", "a", "a">>, Timestamp(MaxDay - 1, TicksPerDay - 1))}
        \cup {[RawRow(<<" ", "a", "a", "a">>, Timestamp(0, 0)) EXCEPT !.EMA_Low = NaN]}

\* The files written row by row: up to MaxRows distinct rows in any order.
RawTables ==
    {t \in UNION {[1..n -> RawRows] : n \in 1..MaxRows} :
        \A i, j \in 1..Len(t) : i # j => t[i] # t[j]}

\* The file of the scenario: "AAA" and "BBB", each with one row at midnight of
\* each of the first n weeks.
ScenarioTable(n) ==
    [k \in 1..(2 * n) |->
        RawRow(IF k % 2 = 1 THEN <<"A", "A", "A">> ELSE <<"B", "B", "B">>,
               Timestamp((k - 1) \div 2, 0))]

ScenarioTables == {ScenarioTable(n) : n \in 1..MaxDay}

(* ------------------------------ the load ------------------------------- *)

\* df.dropna(subset=[...])
DropNa(t) ==
    LET Complete(r) == \A i \in 1..Len(Columns) : ~IsNa(Columns[i], r[Columns[i]])
    IN  SelectSeq(t, Complete)

\* df["Ticker"] = df["Ticker"].str.strip().str.upper()
NormalizeTicker(t) == [i \in 1..Len(t) |-> [t[i] EXCEPT !.Ticker = Upper(Strip(t[i].Ticker))]]

RECURSIVE InsertByDate(_, _)
InsertByDate(sorted, r) ==
    IF sorted = <<>> THEN <<r>>
    ELSE IF r.Date < Head(sorted).Date THEN <<r>> \o sorted
    ELSE <<Head(sorted)>> \o InsertByDate(Tail(sorted), r)

RECURSIVE SortByDate(_)
\* df.sort_values("Date"): ascending, rows of equal Date in their file order
\* (the file's own order is any order, so every order of ties occurs).
SortByDate(t) ==
    IF t = <<>> THEN <<>>
    ELSE InsertByDate(SortByDate(SubSeq(t, 1, Len(t) - 1)), t[Len(t)])

\* Lines 6-10.
LoadData(raw) == SortByDate(NormalizeTicker(DropNa(raw)))

RECURSIVE InsertStr(_, _)
InsertStr(sorted, s) ==
    IF sorted = <<>> THEN <<s>>
    ELSE IF StrLess(s, Head(sorted)) THEN <<s>> \o sorted
    ELSE <<Head(sorted)>> \o InsertStr(Tail(sorted), s)

RECURSIVE SortedStrs(_)
SortedStrs(S) ==
    IF S = {} THEN <<>>
    ELSE LET s == CHOOSE x \in S : TRUE IN InsertStr(SortedStrs(S \ {s}), s)

\* sorted(df["Ticker"].unique())
TickerList(t) == SortedStrs({t[i].Ticker : i \in 1..Len(t)})

\* df["Date"].dt.strftime("%Y-%m-%d").tolist()
DateLabels(t) == [i \in 1..Len(t) |-> StrfTime(t[i].Date)]

(* ------------------------------ the state ------------------------------ *)

VARIABLES
    df,           \* the table after the load
    tickers,      \* sorted distinct symbols of df
    date_labels,  \* one "%Y-%m-%d" label per row of df
    widgets,      \* per browser session: the values of the four Input widgets
    view,         \* per browser session: what the last callback returned, or None
    triggered     \* the Input whose change fired the last callback ("" on page load)

vars == <<df, tickers, date_labels, widgets, view, triggered>>

None == <<>>

Some(x) == <<x>>

\* "No data in selected range."
NoDataText == [kind |-> "nodata"]

\* "_weekly.csv"
CsvSuffix == <<"_", "w", "e", "e", "k", "l", "y", ".", "c", "s", "v">>

(* ---------------------------- update_chart ----------------------------- *)

\* Mask with the end of the span left out.
MaskExclusiveEnd(r, selected_ticker, start_date, end_date) ==
    /\ r.Ticker = selected_ticker
    /\ r.Date >= start_date
    /\ r.Date < end_date

\* (df["Ticker"] == selected_ticker) & (df["Date"] >= start_date) & (df["Date"] <= end_date)
Mask(r, selected_ticker, start_date, end_date) ==
    /\ r.Ticker = selected_ticker
    /\ r.Date >= start_date
    /\ r.Date <= end_date

RECURSIVE BoolIndex(_, _, _, _)
\* df[mask]: the rows of t the mask keeps, in t's order.
BoolIndex(t, selected_ticker, start_date, end_date) ==
    IF t = <<>> THEN <<>>
    ELSE (IF Mask(Head(t), selected_ticker, start_date, end_date) THEN <<Head(t)>> ELSE <<>>)
            \o BoolIndex(Tail(t), selected_ticker, start_date, end_date)

\* LineColor counting positions from 1.
LineColorFromOne(i) == custom_colors[((i + 1) % Len(custom_colors)) + 1]

\* custom_colors[i % len(custom_colors)], i from 0
LineColor(i) == custom_colors[(i % Len(custom_colors)) + 1]

\* go.Scatter(x=dff["Date"], y=dff[fld], name=fld, line=dict(color=...))
Scatter(dff, fld, i) ==
    [name  |-> fld,
     x     |-> [k \in 1..Len(dff) |-> dff[k].Date],
     y     |-> [k \in 1..Len(dff) |-> dff[k][fld]],
     color |-> LineColor(i)]

RECURSIVE AddTraces(_, _, _)
\* for i, fld in enumerate(selected_fields): fig.add_trace(...), from position i on
AddTraces(dff, selected_fields, i) ==
    IF i >= Len(selected_fields) THEN <<>>
    ELSE <<Scatter(dff, selected_fields[i + 1], i)>> \o AddTraces(dff, selected_fields, i + 1)

RECURSIVE SeriesMax(_)
\* dff["Date"].max()
SeriesMax(dates) ==
    IF Len(dates) = 1 THEN dates[1]
    ELSE LET m == SeriesMax(Tail(dates)) IN IF Head(dates) >= m THEN Head(dates) ELSE m

\* LatestRow as dff.iloc[0].
LatestRowFirst(dff) == dff[1]

\* dff.loc[dff["Date"] == dff["Date"].max()].iloc[0]
LatestRow(dff) ==
    LET top == SeriesMax([k \in 1..Len(dff) |-> dff[k].Date])
        IsTop(r) == r.Date = top
    IN  SelectSeq(dff, IsTop)[1]

\* Lines 174-178.
EmaText(dff) ==
    IF dff # <<>>
    THEN LET latest_row == LatestRow(dff)
         IN  [kind |-> "latest",
              date |-> StrfTime(latest_row.Date),
              high |-> Fmt2f(latest_row.EMA_High),
              low  |-> Fmt2f(latest_row.EMA_Low)]
    ELSE NoDataText

\* One line of the CSV text: the row's cells in column order.
CsvLine(r) == [c \in 1..Len(Columns) |-> r[Columns[c]]]

\* ToCsv of the whole table: df.to_csv(index=False).
ToCsvWholeTable(dff) ==
    <<Columns>> \o [k \in 1..Len(df) |-> [c \in 1..Len(Columns) |-> df[k][Columns[c]]]]

\* dff.to_csv(index=False): the text as its lines, the header line first.
ToCsv(dff) == <<Columns>> \o [k \in 1..Len(dff) |-> CsvLine(dff[k])]

\* bool(download_data): None and the empty text are false.
Truthy(download_data) == download_data # None /\ download_data[1] # <<>>

\* ExportRequested as a one-shot: the first click only.
ExportRequestedOnce(n_clicks) == n_clicks = 1

\* if n_clicks > 0
ExportRequested(n_clicks) == n_clicks > 0

\* f"{selected_ticker}_weekly.csv"
FileName(selected_ticker) == selected_ticker \o CsvSuffix

\* update_chart with an early return when no field is selected:
\* if not selected_fields: return go.Figure(), "No data in selected range.", None
update_chart_NeedsFields(selected_ticker, selected_fields, selected_range, n_clicks) ==
    LET start_idx  == selected_range[1]
        end_idx    == selected_range[2]
        start_date == ToDatetime(date_labels[start_idx + 1])
        end_date   == ToDatetime(date_labels[end_idx + 1])
        dff        == BoolIndex(df, selected_ticker, start_date, end_date)
        fig        == [title |-> selected_ticker, data |-> AddTraces(dff, selected_fields, 0)]
        ema_text   == EmaText(dff)
        download_data == IF ExportRequested(n_clicks) THEN Some(ToCsv(dff)) ELSE None
    IN  IF selected_fields = <<>>
        THEN [dff |-> dff, figure |-> fig, ema |-> NoDataText, download |-> None]
        ELSE [dff      |-> dff,
              figure   |-> fig,
              ema      |-> ema_text,
              download |-> IF Truthy(download_data)
                           THEN Some([content  |-> download_data[1],
                                      filename |-> FileName(selected_ticker)])
                           ELSE None]

\* Lines 139-184.  dff, the callback's local, is kept beside the three outputs.
update_chart(selected_ticker, selected_fields, selected_range, n_clicks) ==
    LET start_idx  == selected_range[1]
        end_idx    == selected_range[2]
        start_date == ToDatetime(date_labels[start_idx + 1])
        end_date   == ToDatetime(date_labels[end_idx + 1])
        dff        == BoolIndex(df, selected_ticker, start_date, end_date)
        fig        == [title |-> selected_ticker, data |-> AddTraces(dff, selected_fields, 0)]
        ema_text   == EmaText(dff)
        download_data == IF ExportRequested(n_clicks) THEN Some(ToCsv(dff)) ELSE None
    IN  [dff      |-> dff,
         figure   |-> fig,
         ema      |-> ema_text,
         download |-> IF Truthy(download_data)
                      THEN Some([content  |-> download_data[1],
                                 filename |-> FileName(selected_ticker)])
                      ELSE None]

(* ----------------------------- the widgets ----------------------------- *)

\* The RangeSlider's max.
SliderMax == Len(date_labels) - 1

\* The widgets' initial values in app.layout.
Layout ==
    [ticker   |-> tickers[1],
     fields   |-> <<"Close">>,
     range    |-> <<0, SliderMax>>,
     n_clicks |-> 0]

RECURSIVE Reverse(_)
Reverse(s) == IF s = <<>> THEN <<>> ELSE Reverse(Tail(s)) \o <<Head(s)>>

\* Values the checklist hands over: nothing ticked, the default, every box
\* ticked from the left, every box ticked from the right.
FieldSelections == {<<>>, <<"Close">>, fields, Reverse(fields)}

\* Values the RangeSlider hands over: min = 0, max = len(date_labels) - 1,
\* step = 1, allowCross = False.
SliderRanges == {r \in (0..SliderMax) \X (0..SliderMax) : r[1] <= r[2]}

\* Callback with the filtered frame bound to the module's df.
CallbackRebindsDf(s, w, input) ==
    /\ triggered' = input
    /\ widgets' = [widgets EXCEPT ![s] = w]
    /\ view' = [view EXCEPT ![s] =
                  <<update_chart(w.ticker, w.fields, w.range, w.n_clicks)>>]
    /\ df' = update_chart(w.ticker, w.fields, w.range, w.n_clicks).dff
    /\ UNCHANGED <<tickers, date_labels>>

\* The callback runs on the session's widget values; nothing else is written.
Callback(s, w, input) ==
    /\ triggered' = input
    /\ widgets' = [widgets EXCEPT ![s] = w]
    /\ view' = [view EXCEPT ![s] =
                  Some(update_chart(w.ticker, w.fields, w.range, w.n_clicks))]
    /\ UNCHANGED <<df, tickers, date_labels>>

\* The page is opened: Dash calls the callback with the layout's values.
PageLoad(s) ==
    /\ view[s] = None
    /\ Callback(s, widgets[s], "")

SelectTicker(s, t) ==
    /\ view[s] # None
    /\ t # widgets[s].ticker
    /\ Callback(s, [widgets[s] EXCEPT !.ticker = t], "ticker-dropdown")

CheckFields(s, f) ==
    /\ view[s] # None
    /\ f # widgets[s].fields
    /\ Callback(s, [widgets[s] EXCEPT !.fields = f], "field-checklist")

SlideRange(s, r) ==
    /\ view[s] # None
    /\ r # widgets[s].range
    /\ Callback(s, [widgets[s] EXCEPT !.range = r], "date-range-slider")

ClickDownload(s) ==
    /\ view[s] # None
    /\ widgets[s].n_clicks < MaxClicks
    /\ Callback(s, [widgets[s] EXCEPT !.n_clicks = @ + 1], "download-button")

Loaded(raw, sessions) ==
    /\ LoadData(raw) # <<>>
    /\ df = LoadData(raw)
    /\ tickers = TickerList(df)
    /\ date_labels = DateLabels(df)
    /\ widgets = [s \in sessions |-> Layout]
    /\ view = [s \in sessions |-> None]
    /\ triggered = ""

\* One browser session, any file.
Init == \E raw \in RawTables \cup ScenarioTables : Loaded(raw, {"s1"})

Next ==
    \/ \E s \in DOMAIN widgets : PageLoad(s)
    \/ \E s \in DOMAIN widgets : \E t \in SeqRange(tickers) : SelectTicker(s, t)
    \/ \E s \in DOMAIN widgets : \E f \in FieldSelections : CheckFields(s, f)
    \/ \E s \in DOMAIN widgets : \E r \in SliderRanges : SlideRange(s, r)
    \/ \E s \in DOMAIN widgets : ClickDownload(s)

Spec == Init /\ [][Next]_vars

\* Two browser sessions on a file in which each symbol trades in a different week.
StaggeredTable ==
    <<RawRow(<<" ", "a", "a", "a">>, Timestamp(0, 0)),
      RawRow(<<"B", "B", "B", " ">>, Timestamp(MaxDay - 1, 0))>>

InitTwo == Loaded(StaggeredTable, {"s1", "s2"})

SpecTwo == InitTwo /\ [][Next]_vars

(* ------------------------------ the claims ----------------------------- *)

Sessions == DOMAIN widgets

Shown(s) == view[s] # None

Result(s) == view[s][1]

\* The calendar span a slider range stands for.
SpanStart(w) == ToDatetime(date_labels[w.range[1] + 1])

SpanEnd(w) == ToDatetime(date_labels[w.range[2] + 1])

InSelection(r, w) == r.Ticker = w.ticker /\ SpanStart(w) <= r.Date /\ r.Date <= SpanEnd(w)

\* C1: the rows update_chart filters are exactly the records of the table whose
\* Ticker is the selected one and whose Date lies in the inclusive span of the
\* two labels the range points at: none other is kept, none such is left out.
C1_FilterExact ==
    \A s \in Sessions :
        Shown(s) =>
            LET w == widgets[s]
                dff == Result(s).dff
            IN  /\ \A k \in 1..Len(dff) : InSelection(dff[k], w)
                /\ \A k \in 1..Len(dff) : \E j \in 1..Len(df) : df[j] = dff[k]
                /\ \A j \in 1..Len(df) :
                      InSelection(df[j], w) => \E k \in 1..Len(dff) : dff[k] = df[j]
                /\ Len(dff) = Cardinality({j \in 1..Len(df) : InSelection(df[j], w)})

\* A view whose filter kept a row, dropped a row of the same symbol for its
\* date and dropped a row inside the span for its symbol.
C1_Witness ==
    \E s \in Sessions :
        /\ Shown(s)
        /\ Result(s).dff # <<>>
        /\ \E j \in 1..Len(df) :
              df[j].Ticker = widgets[s].ticker /\ ~InSelection(df[j], widgets[s])
        /\ \E j \in 1..Len(df) :
              /\ df[j].Ticker # widgets[s].ticker
              /\ SpanStart(widgets[s]) <= df[j].Date
              /\ df[j].Date <= SpanEnd(widgets[s])

\* Every Date of the table is a calendar date (midnight), as the data model
\* of the dashboard has it.
CalendarDates == \A i \in 1..Len(df) : df[i].Date % TicksPerDay = 0

\* C2: whenever the filtered set of rows is empty, update_chart returns no
\* export payload, whatever the click counter (stated for tables of calendar
\* dates).
C2_EmptyNoExport ==
    CalendarDates =>
        \A s \in Sessions :
            (Shown(s) /\ Result(s).dff = <<>>) => Result(s).download = None

TableDates == {df[i].Date : i \in 1..Len(df)}

\* Each symbol has exactly one record on each date of the table.
ScenarioData ==
    /\ CalendarDates
    /\ \A t \in SeqRange(tickers) : \A d \in TableDates :
          Cardinality({i \in 1..Len(df) : df[i].Ticker = t /\ df[i].Date = d}) = 1

LastDate == CHOOSE d \in TableDates : \A e \in TableDates : e <= d

\* C3: in a table where each symbol has a record on each of the same N weekly
\* dates, update_chart(T, ["Close"], [0, N-1], counter) returns all N records
\* of T: one series of N points, a status naming the N-th date and its EMA
\* values, no export at counter 0, an export of N data rows named
\* T_weekly.csv at counter 1.
C3_ScenarioFullRange ==
    ScenarioData =>
        \A s \in Sessions :
            LET w == widgets[s]
                n == Cardinality(TableDates)
                out == Result(s)
                last == CHOOSE i \in 1..Len(df) :
                            df[i].Ticker = w.ticker /\ df[i].Date = LastDate
            IN  (Shown(s) /\ w.fields = <<"Close">> /\ w.range = <<0, n - 1>>) =>
                    /\ Len(out.dff) = n
                    /\ Len(out.figure.data) = 1
                    /\ Len(out.figure.data[1].y) = n
                    /\ out.ema = [kind |-> "latest",
                                  date |-> StrfTime(LastDate),
                                  high |-> Fmt2f(df[last].EMA_High),
                                  low  |-> Fmt2f(df[last].EMA_Low)]
                    /\ (w.n_clicks = 0 => out.download = None)
                    /\ (w.n_clicks = 1 =>
                          /\ out.download # None
                          /\ Len(out.download[1].content) = n + 1
                          /\ out.download[1].filename = w.ticker \o CsvSuffix)

\* C4: date_labels has exactly one entry per distinct Date of the sorted table,
\* none repeated, in ascending order, and the slider's maximum is the number of
\* distinct dates less one.
C4_OneLabelPerDate ==
    CalendarDates =>
        /\ Len(date_labels) = Cardinality(TableDates)
        /\ \A i, j \in 1..Len(date_labels) : i < j => date_labels[i] < date_labels[j]
        /\ SeqRange(date_labels) = {StrfTime(d) : d \in TableDates}
        /\ SliderMax = Cardinality(TableDates) - 1

\* The export the current filter state calls for.
ExportOf(s) ==
    Some([content  |-> <<Columns>> \o [k \in 1..Len(Result(s).dff) |->
                                         [c \in 1..Len(Columns) |-> Result(s).dff[k][Columns[c]]]],
          filename |-> widgets[s].ticker \o CsvSuffix])

\* C5: the click counter never decreases and starts at 0; a callback made
\* while it is 0 returns no export; once it is positive, every later callback
\* whose filtered set is not empty returns the export of the current filter
\* state, also when only the ticker, the fields or the range changed.
C5_ExportSticky ==
    /\ \A s \in Sessions : widgets[s].n_clicks = 0
    /\ [][\A s \in Sessions :
            /\ widgets'[s].n_clicks >= widgets[s].n_clicks
            /\ (Shown(s)' /\ widgets'[s].n_clicks = 0) => Result(s)'.download = None
            /\ (Shown(s)' /\ widgets[s].n_clicks > 0 /\ Result(s)'.dff # <<>>)
                  => Result(s)'.download = ExportOf(s)'
            /\ (Shown(s)' /\ widgets'[s].n_clicks > 0 /\ Result(s)'.dff # <<>>)
                  => Result(s)'.download = ExportOf(s)']_vars

\* A callback fired by the slider alone, after a click, that returned the
\* export of a filter other than the initial one.
C5_Witness ==
    \E s \in Sessions :
        /\ Shown(s)
        /\ triggered = "date-range-slider"
        /\ widgets[s].n_clicks > 0
        /\ widgets[s].range # Layout.range
        /\ Result(s).dff # <<>>
        /\ Result(s).download = ExportOf(s)

\* C6: an export payload is a header row followed by exactly one data row per
\* filtered record, each with all the columns of the record, and its filename
\* is the selected ticker followed by "_weekly.csv".
C6_ExportShape ==
    \A s \in Sessions :
        (Shown(s) /\ Result(s).download # None) =>
            LET content == Result(s).download[1].content
                dff == Result(s).dff
            IN  /\ content[1] = Columns
                /\ Len(content) = Len(dff) + 1
                /\ \A k \in 1..Len(dff) : \A c \in 1..Len(Columns) :
                      content[k + 1][c] = dff[k][Columns[c]]
                /\ Result(s).download[1].filename = widgets[s].ticker \o CsvSuffix

\* An export of two or more records that leaves out a record of the table.
C6_Witness ==
    \E s \in Sessions :
        /\ Shown(s)
        /\ Result(s).download # None
        /\ Len(Result(s).dff) >= 2
        /\ Len(Result(s).dff) < Len(df)
        /\ Len(Result(s).download[1].content) = Len(Result(s).dff) + 1

\* C7: the status text is the no-data marker exactly when the filtered set is
\* empty; otherwise it names the maximum Date of the filtered rows and the
\* EMA_High and EMA_Low of a filtered row that has that Date.
C7_StatusLatest ==
    \A s \in Sessions :
        Shown(s) =>
            LET dff == Result(s).dff
                ema == Result(s).ema
                dates == {dff[k].Date : k \in 1..Len(dff)}
            IN  /\ (ema = NoDataText) <=> (dff = <<>>)
                /\ dff # <<>> =>
                      /\ ema.kind = "latest"
                      /\ \A d \in dates : StrfTime(d) <= ema.date
                      /\ \E k \in 1..Len(dff) :
                            /\ \A d \in dates : d <= dff[k].Date
                            /\ ema.date = StrfTime(dff[k].Date)
                            /\ ema.high = Fmt2f(dff[k].EMA_High)
                            /\ ema.low = Fmt2f(dff[k].EMA_Low)

\* A status that names a date later than the first filtered row's, taken from
\* two filtered rows of one day.
C7_Witness ==
    \E s \in Sessions :
        /\ Shown(s)
        /\ Len(Result(s).dff) >= 2
        /\ Result(s).ema.kind = "latest"
        /\ \E k \in 1..Len(Result(s).dff) :
              /\ Result(s).dff[k].Date > Result(s).dff[1].Date
              /\ Result(s).ema.high = Fmt2f(Result(s).dff[k].EMA_High)
              /\ Result(s).ema.high # Fmt2f(Result(s).dff[1].EMA_High)

\* C8: status text and export do not depend on the selected fields: with the
\* same ticker, range and counter every field selection gives the status and
\* the export the view shows; with no field selected there is no series and
\* still the normal status and export.
C8_FieldsIrrelevant ==
    \A s \in Sessions :
        Shown(s) =>
            LET w == widgets[s]
            IN  /\ \A f \in FieldSelections :
                      LET alt == update_chart(w.ticker, f, w.range, w.n_clicks)
                      IN  /\ alt.ema = Result(s).ema
                          /\ alt.download = Result(s).download
                          /\ alt.dff = Result(s).dff
                /\ w.fields = <<>> =>
                      /\ Result(s).figure.data = <<>>
                      /\ Result(s).dff # <<>> => Result(s).ema.kind = "latest"
                      /\ (Result(s).dff # <<>> /\ w.n_clicks > 0)
                            => Result(s).download = ExportOf(s)

\* No field selected: no series, the latest-week status and an export.
C8_Witness ==
    \E s \in Sessions :
        /\ Shown(s)
        /\ widgets[s].fields = <<>>
        /\ Result(s).figure.data = <<>>
        /\ Result(s).ema.kind = "latest"
        /\ Result(s).download # None

\* C9: one curve per selected field in the order of the selection; the curve at
\* position i carries the i-th selected field's values over the filtered rows
\* and has the color palette[i mod |palette|], whichever field it is, so that
\* selecting the same fields in another order gives a field another color.
C9_CurvePerField ==
    \A s \in Sessions :
        Shown(s) =>
            LET sel == widgets[s].fields
                dff == Result(s).dff
                data == Result(s).figure.data
            IN  /\ Len(data) = Len(sel)
                /\ \A i \in 0..(Len(sel) - 1) :
                      /\ data[i + 1].name = sel[i + 1]
                      /\ Len(data[i + 1].y) = Len(dff)
                      /\ Len(data[i + 1].x) = Len(dff)
                      /\ \A k \in 1..Len(dff) :
                            /\ data[i + 1].y[k] = dff[k][sel[i + 1]]
                            /\ data[i + 1].x[k] = dff[k].Date
                      /\ data[i + 1].color = custom_colors[(i % Len(custom_colors)) + 1]
                /\ LET fwd == AddTraces(dff, fields, 0)
                       bwd == AddTraces(dff, Reverse(fields), 0)
                   IN  \E i, j \in 1..Len(fields) :
                          fwd[i].name = bwd[j].name /\ fwd[i].color # bwd[j].color

\* All seven fields selected from the right: "High", second from the left in
\* the checklist, is the sixth curve and has the sixth color, not the second;
\* the seventh curve wraps around to the first color.
C9_Witness ==
    \E s \in Sessions :
        /\ Shown(s)
        /\ widgets[s].fields = Reverse(fields)
        /\ Result(s).dff # <<>>
        /\ Result(s).figure.data[6].name = "High"
        /\ Result(s).figure.data[6].color = custom_colors[6]
        /\ custom_colors[6] # custom_colors[2]
        /\ Result(s).figure.data[7].color = custom_colors[1]

\* C10: update_chart holds no state across invocations: after any interleaving
\* of the callbacks of two sessions the table, tickers and date_labels are as
\* the load left them, and what a session is shown is what its own four
\* arguments give on the loaded table, so two sessions with the same four
\* arguments are shown the same.
C10_Stateless ==
    /\ df = LoadData(StaggeredTable)
    /\ tickers = TickerList(LoadData(StaggeredTable))
    /\ date_labels = DateLabels(LoadData(StaggeredTable))
    /\ \A s \in Sessions :
          Shown(s) =>
              LET w == widgets[s]
                  lo == ToDatetime(DateLabels(LoadData(StaggeredTable))[w.range[1] + 1])
                  hi == ToDatetime(DateLabels(LoadData(StaggeredTable))[w.range[2] + 1])
              IN  /\ Result(s).dff = BoolIndex(LoadData(StaggeredTable), w.ticker, lo, hi)
                  /\ Result(s).ema = EmaText(Result(s).dff)
                  /\ Result(s).figure.data = AddTraces(Result(s).dff, w.fields, 0)
                  /\ (Result(s).download # None) <=> w.n_clicks > 0
    /\ \A s1, s2 \in Sessions :
          (Shown(s1) /\ Shown(s2) /\ widgets[s1] = widgets[s2]) => view[s1] = view[s2]

\* Two sessions that came to the same four arguments, not the initial ones, one
\* of them by the callback that ran last, and are shown the same.
C10_Witness ==
    /\ Shown("s1") /\ Shown("s2")
    /\ widgets["s1"] = widgets["s2"]
    /\ widgets["s1"].n_clicks = 1
    /\ widgets["s1"].range = <<1, 1>>
    /\ widgets["s1"].ticker = tickers[2]
    /\ triggered = "ticker-dropdown"
    /\ Result("s1").dff # <<>>
    /\ view["s1"] = view["s2"]

=============================================================================
